---- MODULE Spec2Model ----
(***************************************************************************)
(* Model of the annotation pipeline of mark_with_ai_and_position.py:       *)
(* process_all (dispatcher loop and reconciliation), the pool tasks        *)
(* process_batch_api_task, and the retry loop of call_gemini_json.         *)
(***************************************************************************)
EXTENDS Integers, Sequences, FiniteSets, TLC

(* ---------------- bounds of the model ---------------- *)
\* rows of number_level_analysis when the run starts
NumRows == 5
\* longest results list the oracle answers with
MaxResults == 2
\* largest retry argument call_gemini_json is called with
MaxRetry == 3

\* most sentences in the source table
MaxSentences == 2

\* most runs of process_all in a row
MaxRuns == 2

\* inserts between two commits of the extraction (1000 at line 167)
COMMIT_EVERY == 2

\* longest sentence the extractor is tried on
MaxLen == 4

\* largest batch size the batching is tried with
MaxBatchSize == 3

\* BATCH_SIZE and MAX_WORKERS of the source are 20 and 6; the model takes
\* them as bounds, small enough that a run of NumRows rows has more batches
\* than workers and batches of more than one record
BATCH_SIZE == 2
MAX_WORKERS == 2

(* ---------------- program constants ---------------- *)

\* number_type codes: SQL NULL is encoded as -2, -1 is "处理失败"
NULL == -2
FAILED == -1
ValidTypes == {0, 1, 2}
Terminal == ValidTypes \cup {FAILED}

RowIds == 1..NumRows
\* the value of item.get("id") when the entry has no id (or one of no row)
NoId == 0

Min(a, b) == IF a < b THEN a ELSE b

(* ---------------- the oracle's answers ---------------- *)
\* a JSON value found under "type": an integer, a string of digits, another
\* string, or no member at all (item.get("type") is None)
TypeVals ==
    {[kind |-> "int", val |-> v] : v \in 0..3}
        \cup {[kind |-> "numstr", val |-> 1],
              [kind |-> "badstr", val |-> 0],
              [kind |-> "missing", val |-> 0]}

\* an entry of the results list: a JSON object, or any other JSON value
NonObject == [obj |-> FALSE, id |-> NoId, type |-> [kind |-> "missing", val |-> 0]]
Items ==
    {[obj |-> TRUE, id |-> i, type |-> t] : i \in RowIds \cup {NoId}, t \in TypeVals}
        \cup {NonObject}

\* what call_gemini_json does for one batch: raise after the last failed
\* attempt, or return the parsed content: JSON null, a JSON value that is
\* not an object, an object without "results", an object whose "results"
\* is not a list, an object whose "results" is a list
CallOutcomes == {"raise", "null", "notobject", "noresults", "notlist", "list"}

\* python's int(x) on a JSON value: ok = FALSE when it raises
PyInt(t) ==
    CASE t.kind = "int" -> [ok |-> TRUE, val |-> t.val]
      [] t.kind = "numstr" -> [ok |-> TRUE, val |-> t.val]
      [] OTHER -> [ok |-> FALSE, val |-> 0]

\* the decode without the range check of lines 323-324
DecodeType_NoRange(t) ==
    IF PyInt(t).ok THEN PyInt(t).val ELSE FAILED

\* lines 321-326
DecodeType(t) ==
    IF PyInt(t).ok
    THEN IF PyInt(t).val \in ValidTypes THEN PyInt(t).val ELSE FAILED
    ELSE FAILED

(* ---------------- extract_chinese_numbers ---------------- *)
\* a sentence is a sequence of characters, each written by its pinyin
\* name; the character class of the pattern at line 54
NumeralGlyphs ==
    {"ling", "yi", "er", "san", "si", "wu", "liu", "qi", "ba", "jiu",
     "shi", "bai", "qian", "wan", "yi4"}

RECURSIVE RunEnd(_, _)
\* the greedy "+": the first position after pos (1-based) that holds no
\* numeral glyph, Len(text) + 1 when the run reaches the end
RunEnd(text, pos) ==
    IF pos <= Len(text) /\ text[pos] \in NumeralGlyphs
    THEN RunEnd(text, pos + 1)
    ELSE pos

\* a match dict that reports 1-based offsets
MatchDict_OneBased(text, pos, e) ==
    [text |-> SubSeq(text, pos, e - 1), start |-> pos, end |-> e]

\* lines 57-61: the run text[pos..e-1] (1-based) as python reports it,
\* group(), start() and end() with 0-based offsets, end exclusive
MatchDict(text, pos, e) ==
    [text |-> SubSeq(text, pos, e - 1), start |-> pos - 1, end |-> e - 1]

RECURSIVE ScanFrom(_, _)
\* re.finditer: the leftmost match at or after pos, then on from its end
ScanFrom(text, pos) ==
    IF pos > Len(text) THEN <<>>
    ELSE IF text[pos] \in NumeralGlyphs
         THEN <<MatchDict(text, pos, RunEnd(text, pos))>>
                  \o ScanFrom(text, RunEnd(text, pos))
         ELSE ScanFrom(text, pos + 1)

extract_chinese_numbers(text) == ScanFrom(text, 1)

(* ---------------- pure parts of process_all ---------------- *)
\* the largest id of a table (a function from ids to labels), 0 when empty
MaxId(table) ==
    IF DOMAIN table = {} THEN 0
    ELSE CHOOSE m \in DOMAIN table : \A r \in DOMAIN table : r <= m

RECURSIVE SelectNull_RetryFailed(_, _)
\* a query that also selects the rows marked -1
SelectNull_RetryFailed(table, from) ==
    IF from > MaxId(table) THEN <<>>
    ELSE IF from \in DOMAIN table /\ table[from] \in {NULL, FAILED}
         THEN <<from>> \o SelectNull_RetryFailed(table, from + 1)
         ELSE SelectNull_RetryFailed(table, from + 1)

RECURSIVE SelectNull(_, _)
\* fetch_rows_to_label: ids with number_type IS NULL, ORDER BY id
SelectNull(table, from) ==
    IF from > MaxId(table) THEN <<>>
    ELSE IF from \in DOMAIN table /\ table[from] = NULL
         THEN <<from>> \o SelectNull(table, from + 1)
         ELSE SelectNull(table, from + 1)

fetch_rows_to_label(table) == SelectNull(table, 1)

\* the batching that drops a last batch shorter than n
MakeBatches_FullOnly(rs, n) ==
    [k \in 1..(Len(rs) \div n) |-> SubSeq(rs, (k - 1) * n + 1, k * n)]

\* [rows[i:i + BATCH_SIZE] for i in range(0, len(rows), BATCH_SIZE)]
MakeBatches(rs, n) ==
    [k \in 1..((Len(rs) + n - 1) \div n) |->
        SubSeq(rs, (k - 1) * n + 1, Min(k * n, Len(rs)))]

Range(s) == {s[i] : i \in 1..Len(s)}

\* the UPDATE without its WHERE id=%s
MarkFailed_AllRows(table, batch_rows) ==
    [r \in DOMAIN table |-> FAILED]

\* the batch marked -1 row by row (lines 294-299 and 308-313)
MarkFailed(table, batch_rows) ==
    [r \in DOMAIN table |-> IF r \in Range(batch_rows) THEN FAILED ELSE table[r]]

\* the UPDATE without the test "rid in id_map" of line 328
ApplyItem_AnyId(table, batch_rows, item) ==
    IF item.id \in DOMAIN table
    THEN [table EXCEPT ![item.id] = DecodeType(item.type)]
    ELSE table

\* one iteration of "for item in results" on an object entry (lines 320-333)
ApplyItem(table, batch_rows, item) ==
    IF item.id \in Range(batch_rows)
    THEN [table EXCEPT ![item.id] = DecodeType(item.type)]
    ELSE table

\* process_batch_api_task: the result handed to the dispatcher
TaskResult(outcome) == IF outcome = "raise" THEN "null" ELSE outcome

RECURSIVE ApplyResults(_, _, _)
\* the loop "for item in results" (lines 319-333) on a whole list: the
\* table with every UPDATE applied, or raised at the first entry that is
\* not an object
ApplyResults(table, batch_rows, results) ==
    IF results = <<>> THEN [raised |-> FALSE, table |-> table]
    ELSE IF ~Head(results).obj THEN [raised |-> TRUE, table |-> table]
    ELSE ApplyResults(ApplyItem(table, batch_rows, Head(results)),
                      batch_rows, Tail(results))

\* one iteration of the dispatcher loop up to its commit (lines 290-333)
ReconcileBatch(table, batch_rows, api, results) ==
    CASE api = "null" -> [raised |-> FALSE, table |-> MarkFailed(table, batch_rows)]
      [] api = "notobject" -> [raised |-> TRUE, table |-> table]
      [] api = "notlist" -> [raised |-> FALSE, table |-> MarkFailed(table, batch_rows)]
      [] api = "noresults" -> ApplyResults(table, batch_rows, <<>>)
      [] OTHER -> ApplyResults(table, batch_rows, results)

\* the delay of time.sleep(0.5 * (i + 1)), in milliseconds
SleepDelay(i) == 500 * (i + 1)

\* range(retry + 1)
LoopContinues_OneMore(i, retry) == i <= retry

\* range(retry) has a next value after i
LoopContinues(i, retry) == i < retry

(* ---------------- state ---------------- *)
VARIABLES
    number_type,  \* committed column number_type, by row id
    txn,          \* the column as the open transaction of conn sees it
    rows,         \* result of fetch_rows_to_label
    batches,      \* the batches submitted to the pool
    futures,      \* per batch: "queued", "running", "done"
    outcome,      \* per batch: what call_gemini_json did ("none" before)
    recon,        \* per batch: "none", "open", "committed", "raised" (by the
                  \* reply), "store_error"
    pc,           \* position of process_all
    cur,          \* batch of the current loop iteration (0: none)
    item_no,      \* entries of the current results list iterated so far
    \* one loop iteration of process_all on a given batch and result
    rb_pc,        \* "idle", "ready", "committed", "raised"
    rb_before,    \* number_type before the iteration
    rb_rows,      \* batch_rows
    rb_api,       \* api_result
    rb_results,   \* api_result["results"] when it is a list
    rb_after,     \* committed number_type after the iteration
    \* one call of call_gemini_json
    c_pc,         \* "idle", "loop", "returned", "raised"
    c_retry,      \* the retry argument
    c_i,          \* the loop variable i
    c_log,        \* outcome of every request sent, in order
    c_slept,      \* every time.sleep delay, in milliseconds, in order
    c_ret,        \* the value returned, or last_err
    \* the batching of line 277 on a given list and batch size
    mb_pc,        \* "idle", "ready", "done"
    mb_xs,        \* rows
    mb_n,         \* the batch size
    mb_out,       \* batches
    \* extract_chinese_numbers on a given sentence
    ex_pc,        \* "idle", "ready", "done"
    ex_text,      \* text
    ex_matches,   \* matches
    \* batches with given replies, reconciled in any completion order
    o_pc,         \* "idle", "loop", "done", "closed"
    o_before,     \* the committed column at the start of the run
    o_batches,    \* batches
    o_reply,      \* per batch: what its task hands to the dispatcher
    o_handled,    \* the batches reconciled so far, in that order
    o_table,      \* the committed column now
    \* runs of process_all with the extraction, on a source table
    src,          \* all_num_sentences: content by id
    a_rows,       \* the analysis table, committed rows in id order
    a_txn,        \* the analysis table as the connection sees it
    a_seq,        \* the last value of the BIGSERIAL sequence
    in_pc,        \* "idle", "start", "extract", "loop", "done", "closed"
    in_done,      \* source ids the extraction loop has been through
    insert_count, \* insert_count
    in_count,     \* count (line 263) of the current run
    in_runs,      \* runs started
    in_batches,   \* batches
    in_next,      \* the next batch to reconcile
    in_reply      \* the reply reconciled last

mainVars == <<number_type, txn, rows, batches, futures, outcome, recon, pc, cur, item_no>>
rbVars == <<rb_pc, rb_before, rb_rows, rb_api, rb_results, rb_after>>
callVars == <<c_pc, c_retry, c_i, c_log, c_slept, c_ret>>
mbVars == <<mb_pc, mb_xs, mb_n, mb_out>>
exVars == <<ex_pc, ex_text, ex_matches>>
ordVars == <<o_pc, o_before, o_batches, o_reply, o_handled, o_table>>
inVars ==
    <<src, a_rows, a_txn, a_seq, in_pc, in_done, insert_count, in_count,
      in_runs, in_batches, in_next, in_reply>>
pureVars == <<mbVars, exVars, ordVars, inVars>>
vars == <<mainVars, rbVars, callVars, pureVars>>

BatchIds == 1..Len(batches)
Running == {b \in BatchIds : futures[b] = "running"}
Queued == {b \in BatchIds : futures[b] = "queued"}
api_result(b) == TaskResult(outcome[b])
BatchRows(b) == Range(batches[b])

\* the table when a run starts: every row unlabelled (first run), or rows
\* labelled by an earlier run (the last one, or the first one Failed too)
InitTables ==
    {[r \in RowIds |-> NULL],
     [r \in RowIds |-> IF r = NumRows THEN 1 ELSE NULL],
     [r \in RowIds |-> IF r = 1 THEN FAILED ELSE IF r = NumRows THEN 1 ELSE NULL]}

MainIdle ==
    /\ number_type = [r \in RowIds |-> NULL]
    /\ txn = number_type
    /\ rows = <<>>
    /\ batches = <<>>
    /\ futures = <<>>
    /\ outcome = <<>>
    /\ recon = <<>>
    /\ pc = "idle"
    /\ cur = 0
    /\ item_no = 0

RbIdle ==
    /\ rb_pc = "idle"
    /\ rb_before = [r \in RowIds |-> NULL]
    /\ rb_rows = <<>>
    /\ rb_api = "null"
    /\ rb_results = <<>>
    /\ rb_after = rb_before

CallIdle ==
    /\ c_pc = "idle"
    /\ c_retry = 0
    /\ c_i = 0
    /\ c_log = <<>>
    /\ c_slept = <<>>
    /\ c_ret = "none"

MbIdle ==
    /\ mb_pc = "idle"
    /\ mb_xs = <<>>
    /\ mb_n = 1
    /\ mb_out = <<>>

ExIdle ==
    /\ ex_pc = "idle"
    /\ ex_text = <<>>
    /\ ex_matches = <<>>

OrdIdle ==
    /\ o_pc = "idle"
    /\ o_before = [r \in RowIds |-> NULL]
    /\ o_batches = <<>>
    /\ o_reply = <<>>
    /\ o_handled = <<>>
    /\ o_table = o_before

NoReply == [api |-> "none", results |-> <<>>]

InIdle ==
    /\ src = <<>>
    /\ a_rows = <<>>
    /\ a_txn = <<>>
    /\ a_seq = 0
    /\ in_pc = "idle"
    /\ in_done = {}
    /\ insert_count = 0
    /\ in_count = 0
    /\ in_runs = 0
    /\ in_batches = <<>>
    /\ in_next = 1
    /\ in_reply = NoReply

PureIdle == MbIdle /\ ExIdle /\ OrdIdle /\ InIdle

Init ==
    /\ number_type \in InitTables
    /\ txn = number_type
    /\ rows = <<>>
    /\ batches = <<>>
    /\ futures = <<>>
    /\ outcome = <<>>
    /\ recon = <<>>
    /\ pc = "start"
    /\ cur = 0
    /\ item_no = 0
    /\ RbIdle
    /\ CallIdle
    /\ PureIdle

(* ---------------- process_all up to the pool ---------------- *)
\* lines 270-284: fetch, return if nothing to do, batch, submit every batch
FetchAndSubmit ==
    /\ pc = "start"
    /\ rows' = fetch_rows_to_label(number_type)
    /\ IF rows' = <<>>
       THEN /\ pc' = "closed"
            /\ UNCHANGED <<batches, futures, outcome, recon>>
       ELSE /\ batches' = MakeBatches(rows', BATCH_SIZE)
            /\ futures' = [b \in 1..Len(batches') |-> "queued"]
            /\ outcome' = [b \in 1..Len(batches') |-> "none"]
            /\ recon' = [b \in 1..Len(batches') |-> "none"]
            /\ pc' = "as_completed"
    /\ UNCHANGED <<number_type, txn, cur, item_no, rbVars, callVars, pureVars>>

(* ---------------- pool threads ---------------- *)
\* a pool that starts a thread for every submitted work item
HasIdleWorker_Unbounded == TRUE

\* ThreadPoolExecutor(max_workers=MAX_WORKERS): a thread exists for a queued
\* work item only while fewer than MAX_WORKERS are busy
HasIdleWorker == Cardinality(Running) < MAX_WORKERS

\* a pool thread takes the oldest queued work item
TaskStart(b) ==
    /\ b \in Queued
    /\ \A o \in Queued : b <= o
    /\ HasIdleWorker
    /\ futures' = [futures EXCEPT ![b] = "running"]
    /\ UNCHANGED <<number_type, txn, rows, batches, outcome, recon, pc, cur, item_no, rbVars, callVars, pureVars>>

\* process_batch_api_task returns (batch_rows, result) or (batch_rows, None)
TaskFinish(b, o) ==
    /\ b \in Running
    /\ futures' = [futures EXCEPT ![b] = "done"]
    /\ outcome' = [outcome EXCEPT ![b] = o]
    /\ UNCHANGED <<number_type, txn, rows, batches, recon, pc, cur, item_no, rbVars, callVars, pureVars>>

(* ---------------- dispatcher loop ---------------- *)
\* a result taken up as soon as its future completes (a done-callback),
\* whatever the loop is doing
AtLoopHead_Callback == pc \in {"as_completed", "for_item", "commit"}

\* the for loop is at its head, about to ask as_completed for a future
AtLoopHead == pc = "as_completed"

\* lines 289-315: as_completed yields a finished future; the result is
\* None, or its "results" is looked up
NextCompleted(b) ==
    /\ AtLoopHead
    /\ b \in BatchIds
    /\ futures[b] = "done"
    /\ recon[b] = "none"
    /\ cur' = b
    /\ item_no' = 0
    /\ CASE api_result(b) = "null" ->
              /\ txn' = MarkFailed(txn, batches[b])
              /\ recon' = [recon EXCEPT ![b] = "open"]
              /\ pc' = "commit"
         [] api_result(b) = "notobject" ->
              \* api_result.get raises AttributeError
              /\ recon' = [recon EXCEPT ![b] = "raised"]
              /\ pc' = "shutdown"
              /\ UNCHANGED txn
         [] api_result(b) = "notlist" ->
              /\ txn' = MarkFailed(txn, batches[b])
              /\ recon' = [recon EXCEPT ![b] = "open"]
              /\ pc' = "commit"
         [] OTHER ->
              /\ recon' = [recon EXCEPT ![b] = "open"]
              /\ pc' = "for_item"
              /\ UNCHANGED txn
    /\ UNCHANGED <<number_type, rows, batches, futures, outcome, rbVars, callVars, pureVars>>

\* lines 319-333: the next entry of the results list
ForItem(item) ==
    /\ pc = "for_item"
    /\ api_result(cur) = "list"
    /\ item_no < MaxResults
    /\ item_no' = item_no + 1
    /\ IF item.obj
       THEN /\ txn' = ApplyItem(txn, batches[cur], item)
            /\ UNCHANGED <<recon, pc>>
       ELSE \* item.get raises AttributeError
            /\ recon' = [recon EXCEPT ![cur] = "raised"]
            /\ pc' = "shutdown"
            /\ UNCHANGED txn
    /\ UNCHANGED <<number_type, rows, batches, futures, outcome, cur, rbVars, callVars, pureVars>>

\* the results list is exhausted (at once when "results" defaulted to [])
EndOfResults ==
    /\ pc = "for_item"
    /\ item_no' = 0
    /\ pc' = "commit"
    /\ UNCHANGED <<number_type, txn, rows, batches, futures, outcome, recon, cur, rbVars, callVars, pureVars>>

\* conn.commit() at lines 300, 314, 335
Commit ==
    /\ pc = "commit"
    /\ number_type' = txn
    /\ recon' = [recon EXCEPT ![cur] = "committed"]
    /\ pc' = "as_completed"
    /\ UNCHANGED <<txn, rows, batches, futures, outcome, cur, item_no, rbVars, callVars, pureVars>>

\* as_completed is exhausted, the pool is shut down, the summary is logged
Summary ==
    /\ AtLoopHead
    /\ \A b \in BatchIds : recon[b] = "committed"
    /\ pc' = "done"
    /\ UNCHANGED <<number_type, txn, rows, batches, futures, outcome, recon, cur, item_no, rbVars, callVars, pureVars>>

\* a cur.execute or the conn.commit of the open iteration raises a psycopg
\* error (lines 295, 309, 329, 300, 314, 335); an error inside a marking
\* loop leaves the same transaction to roll back as one at its commit
StoreError ==
    /\ pc \in {"for_item", "commit"}
    /\ recon' = [recon EXCEPT ![cur] = "store_error"]
    /\ pc' = "shutdown"
    /\ UNCHANGED <<number_type, txn, rows, batches, futures, outcome, cur, item_no, rbVars, callVars, pureVars>>

\* a handler that commits what the transaction holds
Rollback_Commits ==
    /\ pc = "shutdown"
    /\ \A b \in BatchIds : futures[b] = "done"
    /\ number_type' = txn
    /\ pc' = "closed"
    /\ UNCHANGED <<txn, rows, batches, futures, outcome, recon, cur, item_no, rbVars, callVars, pureVars>>

\* lines 372-379: the exception leaves the with block, whose exit waits for
\* every submitted task; then conn.rollback()
Rollback ==
    /\ pc = "shutdown"
    /\ \A b \in BatchIds : futures[b] = "done"
    /\ txn' = number_type
    /\ pc' = "closed"
    /\ UNCHANGED <<number_type, rows, batches, futures, outcome, recon, cur, item_no, rbVars, callVars, pureVars>>

Next ==
    \/ FetchAndSubmit
    \/ \E b \in BatchIds : TaskStart(b)
    \/ \E b \in BatchIds, o \in CallOutcomes : TaskFinish(b, o)
    \/ \E b \in BatchIds : NextCompleted(b)
    \/ \E item \in Items : ForItem(item)
    \/ EndOfResults
    \/ Commit
    \/ Summary
    \/ StoreError
    \/ Rollback

Spec == Init /\ [][Next]_vars

\* the pool threads and the loop keep running, and every request of
\* call_gemini_json ends within REQUEST_TIMEOUT: a step that can be taken
\* is taken
FairSpec == Init /\ [][Next]_vars /\ WF_vars(Next)

(* ------- one loop iteration on a given batch and result ------- *)
ResultLists ==
    UNION {[1..n -> Items] : n \in 0..MaxResults}

InitReconcile ==
    /\ MainIdle
    /\ CallIdle
    /\ PureIdle
    /\ rb_pc = "ready"
    /\ rb_before \in InitTables
    /\ \E b \in DOMAIN MakeBatches(fetch_rows_to_label(rb_before), BATCH_SIZE) :
          rb_rows = MakeBatches(fetch_rows_to_label(rb_before), BATCH_SIZE)[b]
    /\ rb_api \in {TaskResult(o) : o \in CallOutcomes}
    /\ rb_results \in IF rb_api = "list" THEN ResultLists ELSE {<<>>}
    /\ rb_after = rb_before

\* lines 290-335: reconcile and commit, or raise into lines 372-375
ReconcileOnce ==
    /\ rb_pc = "ready"
    /\ LET r == ReconcileBatch(rb_before, rb_rows, rb_api, rb_results)
       IN  /\ rb_pc' = IF r.raised THEN "raised" ELSE "committed"
           /\ rb_after' = IF r.raised THEN rb_before ELSE r.table
    /\ UNCHANGED <<rb_before, rb_rows, rb_api, rb_results, mainVars, callVars, pureVars>>

NextReconcile == ReconcileOnce

SpecReconcile == InitReconcile /\ [][NextReconcile]_vars

(* ---------------- call_gemini_json ---------------- *)
\* what one request can end in: an exception inside the try block
\* (requests.post, raise_for_status, r.json, the content lookup,
\* json.loads), or the parsed content
AttemptFailures == {"network_error", "timeout", "http_error", "bad_body"}
AttemptValues == CallOutcomes \ {"raise"}

InitCall ==
    /\ MainIdle
    /\ RbIdle
    /\ PureIdle
    /\ c_pc = "loop"
    /\ c_retry \in 1..MaxRetry
    /\ c_i = 0
    /\ c_log = <<>>
    /\ c_slept = <<>>
    /\ c_ret = "none"

\* lines 84-91: the request succeeds and its content is returned
AttemptOk(v) ==
    /\ c_pc = "loop"
    /\ LoopContinues(c_i, c_retry)
    /\ c_log' = Append(c_log, v)
    /\ c_ret' = v
    /\ c_pc' = "returned"
    /\ UNCHANGED <<c_retry, c_i, c_slept, mainVars, rbVars, pureVars>>

\* lines 92-96: the request fails, the delay is slept, and last_err is
\* raised when range(retry) is exhausted
AttemptFail(e) ==
    /\ c_pc = "loop"
    /\ LoopContinues(c_i, c_retry)
    /\ c_log' = Append(c_log, e)
    /\ c_ret' = e
    /\ c_slept' = Append(c_slept, SleepDelay(c_i))
    /\ c_i' = c_i + 1
    /\ c_pc' = IF LoopContinues(c_i + 1, c_retry) THEN "loop" ELSE "raised"
    /\ UNCHANGED <<c_retry, mainVars, rbVars, pureVars>>

NextCall ==
    \/ \E v \in AttemptValues : AttemptOk(v)
    \/ \E e \in AttemptFailures : AttemptFail(e)

SpecCall == InitCall /\ [][NextCall]_vars

(* ---------------- the batching alone ---------------- *)
\* the lists fetch_rows_to_label can return: ids in ascending order
FetchedLists ==
    {fetch_rows_to_label(t) : t \in [RowIds -> {NULL, 1}]} \ {<<>>}

InitBatch ==
    /\ MainIdle
    /\ RbIdle
    /\ CallIdle
    /\ ExIdle
    /\ OrdIdle
    /\ InIdle
    /\ mb_pc = "ready"
    /\ mb_xs \in FetchedLists
    /\ mb_n \in 1..MaxBatchSize
    /\ mb_out = <<>>

\* line 277
BuildBatches ==
    /\ mb_pc = "ready"
    /\ mb_out' = MakeBatches(mb_xs, mb_n)
    /\ mb_pc' = "done"
    /\ UNCHANGED <<mb_xs, mb_n, mainVars, rbVars, callVars, exVars, ordVars, inVars>>

NextBatch == BuildBatches

SpecBatch == InitBatch /\ [][NextBatch]_vars

(* ---------------- the extractor alone ---------------- *)
\* the characters sentences are built from: three numeral glyphs and two
\* others
Alphabet == {"san", "yi", "bai", "lou", "di"}

Sentences == UNION {[1..n -> Alphabet] : n \in 0..MaxLen}

InitExtract ==
    /\ MainIdle
    /\ RbIdle
    /\ CallIdle
    /\ MbIdle
    /\ OrdIdle
    /\ InIdle
    /\ ex_pc = "ready"
    /\ ex_text \in Sentences
    /\ ex_matches = <<>>

\* lines 48-62
Extract ==
    /\ ex_pc = "ready"
    /\ ex_matches' = extract_chinese_numbers(ex_text)
    /\ ex_pc' = "done"
    /\ UNCHANGED <<ex_text, mainVars, rbVars, callVars, mbVars, ordVars, inVars>>

NextExtract == Extract

SpecExtract == InitExtract /\ [][NextExtract]_vars

(* ---------------- completion orders ---------------- *)
\* what the task of a batch can hand to the dispatcher: no result, a
\* content of another shape, or a list with one entry per record of the
\* batch, each typed 0 or 1
FullLists(batch_rows) ==
    {[k \in 1..Len(batch_rows) |->
        [obj |-> TRUE, id |-> batch_rows[k], type |-> [kind |-> "int", val |-> f[k]]]] :
            f \in [1..Len(batch_rows) -> {0, 1}]}

BatchReplies(batch_rows) ==
    {[api |-> a, results |-> <<>>] : a \in {"null", "notobject", "noresults", "notlist"}}
        \cup {[api |-> "list", results |-> l] : l \in FullLists(batch_rows)}

InitOrder ==
    /\ MainIdle
    /\ RbIdle
    /\ CallIdle
    /\ MbIdle
    /\ ExIdle
    /\ InIdle
    /\ o_pc = "loop"
    /\ o_before \in InitTables
    /\ o_batches = MakeBatches(fetch_rows_to_label(o_before), BATCH_SIZE)
    /\ o_reply \in {f \in [DOMAIN o_batches ->
                              UNION {BatchReplies(o_batches[b]) : b \in DOMAIN o_batches}] :
                        \A b \in DOMAIN o_batches : f[b] \in BatchReplies(o_batches[b])}
    /\ o_handled = <<>>
    /\ o_table = o_before

\* lines 289-335 for the batch as_completed yields next: any batch whose
\* task has run, and the task of batch b starts only when fewer than
\* MAX_WORKERS earlier ones are unfinished; an exception ends the run
\* (lines 372-378)
HandleBatch(b) ==
    /\ o_pc = "loop"
    /\ b \in DOMAIN o_batches
    /\ b \notin Range(o_handled)
    /\ b <= Len(o_handled) + MAX_WORKERS
    /\ LET r == ReconcileBatch(o_table, o_batches[b], o_reply[b].api, o_reply[b].results)
       IN  /\ o_table' = IF r.raised THEN o_table ELSE r.table
           /\ o_pc' = IF r.raised THEN "closed" ELSE "loop"
    /\ o_handled' = Append(o_handled, b)
    /\ UNCHANGED <<o_before, o_batches, o_reply, mainVars, rbVars, callVars, mbVars, exVars, inVars>>

\* line 338: the loop ends after the last batch
FinishOrder ==
    /\ o_pc = "loop"
    /\ Len(o_handled) = Len(o_batches)
    /\ o_pc' = "done"
    /\ UNCHANGED <<o_before, o_batches, o_reply, o_handled, o_table, mainVars, rbVars, callVars, mbVars, exVars, inVars>>

NextOrder ==
    \/ \E b \in 1..NumRows : HandleBatch(b)
    \/ FinishOrder

SpecOrder == InitOrder /\ [][NextOrder]_vars

(* ---------------- runs with the extraction ---------------- *)
Scenario == <<"san", "lou", "zhu", "zhe", "yi", "bai", "ren">>

\* contents of the source table: two numerals, one numeral, a sentence
\* with the ordinal prefix, a sentence without numerals
SampleSentences ==
    {Scenario, <<"yi", "bai">>, <<"di", "san", "lou">>, <<"lou">>}

SourceTables == UNION {[1..n -> SampleSentences] : n \in 1..MaxSentences}

\* content NOT LIKE '%di%' (line 138)
NotLikeDi(content) == \A i \in 1..Len(content) : content[i] # "di"
Eligible(source) == {i \in 1..Len(source) : NotLikeDi(source[i])}

\* an INSERT that stores the length of the numeral as its end
NewRow_LengthAsEnd(id, source_id, num_info) ==
    [id |-> id,
     source_id |-> source_id,
     number_text |-> num_info.text,
     number_start |-> num_info.start,
     number_end |-> num_info.end - num_info.start,
     number_type |-> NULL]

\* the row of the INSERT of lines 155-165: the id from the sequence,
\* number_type by its default
NewRow(id, source_id, num_info) ==
    [id |-> id,
     source_id |-> source_id,
     number_text |-> num_info.text,
     number_start |-> num_info.start,
     number_end |-> num_info.end,
     number_type |-> NULL]

\* the number_type column of a table, by id
TypeColumn(tab) ==
    [i \in {tab[k].id : k \in 1..Len(tab)} |->
        tab[CHOOSE k \in 1..Len(tab) : tab[k].id = i].number_type]

\* the table with its number_type column replaced
WithTypes(tab, col) ==
    [k \in 1..Len(tab) |-> [tab[k] EXCEPT !.number_type = col[tab[k].id]]]

\* an extraction on every run
NeedsExtraction_Always(count) == TRUE

\* line 265
NeedsExtraction(count) == count = 0

\* lines 271-277 on table tab: the batches, none when nothing is NULL
LabelBatches(tab) == MakeBatches(fetch_rows_to_label(TypeColumn(tab)), BATCH_SIZE)
LabelPc(tab) == IF fetch_rows_to_label(TypeColumn(tab)) = <<>> THEN "done" ELSE "loop"

\* the replies of the oracle in these runs: no result, or a list of up to
\* two entries on ids 1 and 2 typed 0 or 1
ScenarioItems ==
    {[obj |-> TRUE, id |-> i, type |-> [kind |-> "int", val |-> t]] :
        i \in 1..2, t \in 0..1}

IngestReplies ==
    {[api |-> "null", results |-> <<>>]}
        \cup {[api |-> "list", results |-> l] :
                l \in UNION {[1..n -> ScenarioItems] : n \in 0..2}}

InitIngest ==
    /\ MainIdle
    /\ RbIdle
    /\ CallIdle
    /\ MbIdle
    /\ ExIdle
    /\ OrdIdle
    /\ src \in SourceTables
    /\ a_rows = <<>>
    /\ a_txn = <<>>
    /\ a_seq = 0
    /\ in_pc = "start"
    /\ in_done = {}
    /\ insert_count = 0
    /\ in_count = 0
    /\ in_runs = 0
    /\ in_batches = <<>>
    /\ in_next = 1
    /\ in_reply = NoReply

\* lines 252-277: a run starts, counts the table, and goes to the
\* extraction or straight to the rows to label
RunStart ==
    /\ in_pc \in {"start", "done", "closed"}
    /\ in_runs < MaxRuns
    /\ in_runs' = in_runs + 1
    /\ in_count' = Len(a_rows)
    /\ in_reply' = NoReply
    /\ in_done' = {}
    /\ insert_count' = 0
    /\ in_next' = 1
    /\ IF NeedsExtraction(Len(a_rows))
       THEN /\ in_pc' = "extract"
            /\ in_batches' = <<>>
       ELSE /\ in_pc' = LabelPc(a_rows)
            /\ in_batches' = LabelBatches(a_rows)
    /\ UNCHANGED <<src, a_rows, a_txn, a_seq, mainVars, rbVars, callVars, mbVars, exVars, ordVars>>

\* lines 145-169: one round of "for row in sentences"; the SELECT has no
\* ORDER BY, so s is any sentence not yet seen
ExtractSentence(s) ==
    /\ in_pc = "extract"
    /\ s \in Eligible(src) \ in_done
    /\ LET numbers == extract_chinese_numbers(src[s])
           inserted == a_txn \o [k \in 1..Len(numbers) |-> NewRow(a_seq + k, s, numbers[k])]
       IN  /\ a_txn' = inserted
           /\ a_seq' = a_seq + Len(numbers)
           /\ insert_count' = insert_count + Len(numbers)
           /\ a_rows' = IF (insert_count + Len(numbers)) % COMMIT_EVERY = 0
                         THEN inserted ELSE a_rows
    /\ in_done' = in_done \cup {s}
    /\ UNCHANGED <<src, in_pc, in_count, in_runs, in_batches, in_next, in_reply, mainVars, rbVars, callVars, mbVars, exVars, ordVars>>

\* lines 171 and 271-277: the last commit of the extraction, then the
\* rows to label
ExtractEnd ==
    /\ in_pc = "extract"
    /\ in_done = Eligible(src)
    /\ a_rows' = a_txn
    /\ in_pc' = LabelPc(a_txn)
    /\ in_batches' = LabelBatches(a_txn)
    /\ UNCHANGED <<src, a_txn, a_seq, in_done, insert_count, in_count, in_runs, in_next, in_reply, mainVars, rbVars, callVars, mbVars, exVars, ordVars>>

\* lines 289-335: the next batch is reconciled with its reply and committed
LabelBatch(reply) ==
    /\ in_pc = "loop"
    /\ in_next <= Len(in_batches)
    /\ LET r == ReconcileBatch(TypeColumn(a_txn), in_batches[in_next], reply.api, reply.results)
       IN  /\ ~r.raised
           /\ a_txn' = WithTypes(a_txn, r.table)
           /\ a_rows' = WithTypes(a_txn, r.table)
    /\ in_next' = in_next + 1
    /\ in_reply' = reply
    /\ UNCHANGED <<src, a_seq, in_pc, in_done, insert_count, in_count, in_runs, in_batches, mainVars, rbVars, callVars, mbVars, exVars, ordVars>>

\* lines 338-378: the loop is over and the connection closed
LabelEnd ==
    /\ in_pc = "loop"
    /\ in_next > Len(in_batches)
    /\ in_pc' = "done"
    /\ UNCHANGED <<src, a_rows, a_txn, a_seq, in_done, insert_count, in_count, in_runs, in_batches, in_next, in_reply, mainVars, rbVars, callVars, mbVars, exVars, ordVars>>

\* lines 372-378: a statement fails; the uncommitted inserts are rolled
\* back, the values drawn from the sequence are not given back
Interrupt ==
    /\ in_pc \in {"extract", "loop"}
    /\ a_txn' = a_rows
    /\ in_pc' = "closed"
    /\ UNCHANGED <<src, a_rows, a_seq, in_done, insert_count, in_count, in_runs, in_batches, in_next, in_reply, mainVars, rbVars, callVars, mbVars, exVars, ordVars>>

NextIngest ==
    \/ RunStart
    \/ \E s \in 1..MaxSentences : ExtractSentence(s)
    \/ ExtractEnd
    \/ \E reply \in IngestReplies : LabelBatch(reply)
    \/ LabelEnd
    \/ Interrupt

SpecIngest == InitIngest /\ [][NextIngest]_vars

(* ================= properties ================= *)
OpenBatches == {b \in BatchIds : recon[b] = "open"}

\* entries of a results list that are objects naming row r
EntriesFor(results, r) ==
    {i \in 1..Len(results) : results[i].obj /\ results[i].id = r}

AllObjects(results) == \A i \in 1..Len(results) : results[i].obj

\* a type that is an integer of {0,1,2}
GoodType(t) == t.kind = "int" /\ t.val \in ValidTypes
\* a type that is missing, non-numeric or an integer outside {0,1,2}
BadType(t) == t.kind \in {"missing", "badstr"} \/ (t.kind = "int" /\ t.val \notin ValidTypes)

\* C1: every row fetched as NULL is terminal once process_all has run to
\* its summary, whatever the oracle answered.
C1_Coverage ==
    pc = "done" => \A i \in 1..Len(rows) : number_type[rows[i]] \in Terminal

\* the case of C2: a list of objects, one entry at most per id, every type
\* valid, a record of the batch present and another one omitted
C2_Case ==
    /\ rb_api = "list"
    /\ AllObjects(rb_results)
    /\ \A i \in 1..Len(rb_results) : GoodType(rb_results[i].type)
    /\ \A r \in RowIds : Cardinality(EntriesFor(rb_results, r)) <= 1
    /\ \E r \in Range(rb_rows) : EntriesFor(rb_results, r) # {}
    /\ \E r \in Range(rb_rows) : EntriesFor(rb_results, r) = {}

\* C2: after reconciling such a response the omitted record is Failed and
\* the records present carry their decoded types.
C2_MissingEntryFailed ==
    (rb_pc # "ready" /\ C2_Case) =>
        \A r \in Range(rb_rows) :
            IF EntriesFor(rb_results, r) = {}
            THEN rb_after[r] = FAILED
            ELSE \A i \in EntriesFor(rb_results, r) : rb_after[r] = rb_results[i].type.val

\* the case of C3: a list of objects with one entry at most per record of
\* the batch, one of them with a bad type
C3_Case ==
    /\ rb_api = "list"
    /\ AllObjects(rb_results)
    /\ \A r \in Range(rb_rows) : Cardinality(EntriesFor(rb_results, r)) <= 1
    /\ \E r \in Range(rb_rows) : \E i \in EntriesFor(rb_results, r) : BadType(rb_results[i].type)

C4_WholeBatchFailure ==
    [][(pc = "commit" /\ api_result(cur) = "null" /\ pc' = "as_completed") =>
          /\ \A r \in BatchRows(cur) : number_type[r] = NULL /\ number_type'[r] = FAILED
          /\ \A r \in RowIds \ BatchRows(cur) : number_type'[r] = number_type[r]]_vars

C4_Witness ==
    \E b \in BatchIds :
        /\ recon[b] = "committed"
        /\ outcome[b] = "raise"
        /\ \A r \in BatchRows(b) : number_type[r] = FAILED
        /\ \E o \in BatchIds \ {b} :
              /\ recon[o] = "committed"
              /\ \E r \in BatchRows(o) : number_type[r] \in ValidTypes
        /\ \E o \in BatchIds \ {b} :
              /\ recon[o] = "none"
              /\ \A r \in BatchRows(o) : number_type[r] = NULL

\* C5: at most c_retry requests are sent; a successful request is the last
\* one and its content is what is returned; the call raises only after
\* exactly c_retry failed requests.
C5_RetryBound ==
    /\ Len(c_log) <= c_retry
    /\ \A k \in 1..Len(c_log) : c_log[k] \in AttemptValues => k = Len(c_log)
    /\ c_pc = "returned" =>
          /\ Len(c_log) >= 1
          /\ c_log[Len(c_log)] \in AttemptValues
          /\ c_ret = c_log[Len(c_log)]
    /\ c_pc = "raised" =>
          /\ Len(c_log) = c_retry
          /\ \A k \in 1..Len(c_log) : c_log[k] \in AttemptFailures
    /\ c_pc = "loop" =>
          /\ Len(c_log) < c_retry
          /\ \A k \in 1..Len(c_log) : c_log[k] \in AttemptFailures

C5_Witness ==
    /\ c_retry = 3
    /\ c_pc = "returned"
    /\ Len(c_log) = 3
    /\ c_log[1] = "timeout"
    /\ c_log[2] = "http_error"
    /\ c_ret = "list"

\* C6: at most one batch has an open update transaction, before and after
\* every step, and a step that changes the store (the transaction's view
\* or the committed column) is a step of the dispatcher loop: it changes
\* no task of the pool, and it changes rows of the current batch only.
C6_SerializedReconciliation ==
    [][/\ Cardinality(OpenBatches) <= 1
       /\ Cardinality({b \in 1..Len(recon') : recon'[b] = "open"}) <= 1
       /\ (txn' # txn \/ number_type' # number_type) =>
             /\ futures' = futures
             /\ outcome' = outcome
             /\ pc \in {"as_completed", "for_item", "commit", "shutdown"}
             /\ \A r \in RowIds :
                   (txn'[r] # txn[r] \/ number_type'[r] # number_type[r])
                       => r \in Range(batches[cur'])]_vars

C6_Witness ==
    /\ pc = "commit"
    /\ Cardinality(OpenBatches) = 1
    /\ txn # number_type
    /\ Cardinality(Running) >= 2

\* C7: an UPDATE of the loop is applied only to a record that is still
\* NULL, and it sets a terminal value (the rollback of lines 372-375 apart).
C7_LabelWrittenOnce ==
    [][pc' # "closed" =>
          \A r \in RowIds :
              txn'[r] # txn[r] => (txn[r] = NULL /\ txn'[r] \in Terminal)]_vars

\* C8: no outcome of the oracle takes process_all out of its loop into the
\* except branch.
C8_NoAbort ==
    /\ \A b \in BatchIds : recon[b] # "raised"
    /\ pc \in {"shutdown", "closed"} =>
          (rows = <<>> \/ \E b \in BatchIds : recon[b] = "store_error")

\* C9: once the loop iteration of a batch is over, a reply without the
\* expected top-level shape has left every record of the batch Failed.
C9_StructuralFailure ==
    \A b \in BatchIds :
        (/\ outcome[b] \in {"notobject", "noresults", "notlist"}
         /\ recon[b] \in {"committed", "raised"}
         /\ pc \in {"as_completed", "done", "closed"})
            => \A r \in BatchRows(b) : number_type[r] = FAILED

\* C10: the oracle calls in flight never exceed MAX_WORKERS.
C10_ConcurrencyBound == Cardinality(Running) <= MAX_WORKERS

C10_Witness ==
    /\ Cardinality(Running) = MAX_WORKERS
    /\ Queued # {}

RECURSIVE Concat(_)
Concat(ss) == IF ss = <<>> THEN <<>> ELSE Head(ss) \o Concat(Tail(ss))

\* C11: the batches concatenate to the input list in its order, every batch
\* but the last has exactly mb_n records, the last has 1..mb_n, and batch k
\* is the slice of the input that starts at (k-1)*mb_n.
C11_BatchPartition ==
    mb_pc = "done" =>
        /\ Concat(mb_out) = mb_xs
        /\ Len(mb_out) >= 1
        /\ \A k \in 1..(Len(mb_out) - 1) : Len(mb_out[k]) = mb_n
        /\ Len(mb_out[Len(mb_out)]) \in 1..mb_n
        /\ \A k \in 1..Len(mb_out) : \A j \in 1..Len(mb_out[k]) :
              mb_out[k][j] = mb_xs[(k - 1) * mb_n + j]

C11_Witness ==
    /\ mb_pc = "done"
    /\ Len(mb_out) >= 2
    /\ Len(mb_out[Len(mb_out)]) < mb_n
    /\ Concat(mb_out) = mb_xs

\* C13: from the step in which a store error is raised for batch k on,
\* the committed column never changes again (the batches committed before
\* keep their labels, no later batch is committed), the run is in its
\* exception path, the transaction is rolled back when the connection is
\* closed, and every record of batch k is NULL as before k started.
C13_StorageFailure ==
    [][(\E b \in 1..Len(recon') : recon'[b] = "store_error") =>
          /\ number_type' = number_type
          /\ pc' \in {"shutdown", "closed"}
          /\ pc' = "closed" => txn' = number_type'
          /\ \A b \in 1..Len(recon') :
                /\ recon'[b] = "committed" => recon[b] = "committed"
                /\ recon'[b] = "store_error" =>
                      \A r \in Range(batches'[b]) : number_type'[r] = NULL]_vars

C13_Witness ==
    /\ pc = "closed"
    /\ txn = number_type
    /\ \E k \in BatchIds :
          /\ recon[k] = "store_error"
          /\ outcome[k] = "list"
          /\ \A r \in BatchRows(k) : number_type[r] = NULL
    /\ \E b \in BatchIds :
          /\ recon[b] = "committed"
          /\ \E r \in BatchRows(b) : number_type[r] \in ValidTypes
    /\ \E b \in BatchIds : recon[b] = "none" /\ futures[b] = "done"

\* C16: the fetch returns exactly the ids whose number_type is NULL, in
\* ascending order, and the batches hold those ids only; from then on no
\* step changes a row that is not among them, in the transaction or in the
\* committed column.
C16_TerminalNotResubmitted ==
    [][/\ pc = "start" =>
             /\ Range(rows') = {r \in RowIds : number_type[r] = NULL}
             /\ \A i \in 1..(Len(rows') - 1) : rows'[i] < rows'[i + 1]
             /\ \A b \in 1..Len(batches') : Range(batches'[b]) \subseteq Range(rows')
       /\ \A r \in RowIds :
             (pc # "start" /\ r \notin Range(rows)) =>
                 (txn'[r] = txn[r] /\ number_type'[r] = number_type[r])]_vars

C16_Witness ==
    /\ pc = "done"
    /\ number_type[1] = FAILED
    /\ number_type[NumRows] = 1
    /\ 1 \notin Range(rows)
    /\ NumRows \notin Range(rows)
    /\ \A i \in 1..Len(rows) : number_type[rows[i]] \in ValidTypes \ {1}

\* C18: unless the store raises an error, the run reaches its summary with
\* every batch committed and no call in flight; and a batch enters the
\* reconciliation loop only if it has not entered it before.
C18_EveryBatchReconciled ==
    /\ <>(\/ \E b \in BatchIds : recon[b] = "store_error"
          \/ /\ pc = "done"
             /\ Running = {}
             /\ \A b \in BatchIds : recon[b] = "committed")
    /\ [][\A b \in BatchIds :
            (recon'[b] # recon[b] /\ recon[b] # "open") => recon[b] = "none"]_vars

\* positions (0-based) of ex_text covered by match m
Covered(m) == {p \in 0..(Len(ex_text) - 1) : m.start <= p /\ p < m.end}
IsNumeralAt(p) == ex_text[p + 1] \in NumeralGlyphs

\* C15: the matches come left to right without overlap, each with
\* 0 <= start < end <= Len and text = sentence[start:end]; each is a run of
\* numeral glyphs that no numeral glyph precedes or follows, and every
\* numeral glyph of the sentence lies in exactly one of them.
C15_ExtractorSpans ==
    ex_pc = "done" =>
        /\ \A k \in 1..Len(ex_matches) :
              LET m == ex_matches[k]
              IN  /\ 0 <= m.start /\ m.start < m.end /\ m.end <= Len(ex_text)
                  /\ m.text = SubSeq(ex_text, m.start + 1, m.end)
                  /\ \A p \in Covered(m) : IsNumeralAt(p)
                  /\ m.start > 0 => ~IsNumeralAt(m.start - 1)
                  /\ m.end < Len(ex_text) => ~IsNumeralAt(m.end)
        /\ \A k \in 1..(Len(ex_matches) - 1) :
              ex_matches[k].end <= ex_matches[k + 1].start
        /\ \A p \in 0..(Len(ex_text) - 1) :
              IsNumeralAt(p) =>
                  Cardinality({k \in 1..Len(ex_matches) : p \in Covered(ex_matches[k])}) = 1

C15_Witness ==
    /\ ex_pc = "done"
    /\ Len(ex_matches) = 2
    /\ ex_matches[1].end - ex_matches[1].start = 2
    /\ ex_matches[2].end = Len(ex_text)

\* C19: the k-th delay slept is 0.5 s * k, the delays strictly increase, and
\* every delay is followed by another attempt: when the call has returned
\* or raised, one delay fewer than attempts has been slept.
C19_BackoffSchedule ==
    /\ \A k \in 1..Len(c_slept) : c_slept[k] = 500 * k
    /\ \A k \in 1..(Len(c_slept) - 1) : c_slept[k] < c_slept[k + 1]
    /\ c_pc \in {"returned", "raised"} => Len(c_slept) = Len(c_log) - 1
    /\ c_pc = "loop" => Len(c_slept) = Len(c_log)

\* C20: reconciling a batch with a parsed results list leaves the label of
\* every record outside the batch as it was, whatever ids the list names.
C20_OwnBatchOnly ==
    (rb_pc # "ready" /\ rb_api = "list") =>
        \A r \in RowIds \ Range(rb_rows) : rb_after[r] = rb_before[r]

C20_Witness ==
    /\ rb_pc = "committed"
    /\ rb_api = "list"
    /\ \E k \in 1..Len(rb_results) :
          /\ rb_results[k].obj
          /\ rb_results[k].id \in RowIds \ Range(rb_rows)
          /\ rb_before[rb_results[k].id] = NULL
          /\ DecodeType(rb_results[k].type) \in ValidTypes
    /\ \E k \in 1..Len(rb_results) :
          /\ rb_results[k].obj
          /\ rb_results[k].id \in Range(rb_rows)
          /\ rb_after[rb_results[k].id] \in ValidTypes

\* the occurrence a row stores
Occurrence(r) == <<r.source_id, r.number_start, r.number_end, r.number_text>>
NoDuplicate(tab) ==
    \A i, j \in 1..Len(tab) : Occurrence(tab[i]) = Occurrence(tab[j]) => i = j

\* C12: no occurrence is stored twice, committed or not, after any step of
\* any run; and a run that found the table non-empty (count > 0) adds no
\* row to it in any of its steps.
C12_IdempotentExtraction ==
    [][/\ NoDuplicate(a_rows')
       /\ NoDuplicate(a_txn')
       /\ in_count' > 0 =>
             /\ Len(a_txn') = Len(a_txn)
             /\ Len(a_rows') = Len(a_rows)]_vars

\* a second run skipped the extraction although an earlier, interrupted
\* run left the rows of one sentence out
C12_Witness ==
    /\ in_runs = 2
    /\ in_count > 0
    /\ in_pc = "done"
    /\ \E s \in Eligible(src) :
          /\ extract_chinese_numbers(src[s]) # <<>>
          /\ \A k \in 1..Len(a_rows) : a_rows[k].source_id # s

ScenarioReply ==
    [api |-> "list",
     results |-> <<[obj |-> TRUE, id |-> 1, type |-> [kind |-> "int", val |-> 1]],
                   [obj |-> TRUE, id |-> 2, type |-> [kind |-> "int", val |-> 0]]>>]

ScenarioRows(t1, t2) ==
    <<[id |-> 1, source_id |-> 1, number_text |-> <<"san">>,
       number_start |-> 0, number_end |-> 1, number_type |-> t1],
      [id |-> 2, source_id |-> 1, number_text |-> <<"yi", "bai">>,
       number_start |-> 4, number_end |-> 6, number_type |-> t2]>>

\* C14: in the first run on the one sentence of the scenario, the
\* extraction leaves exactly two rows, ids 1 and 2, both NULL, with the
\* spans [0,1) and [4,6), in one batch; once that batch is reconciled with
\* the reply of the scenario, row 1 holds 1, row 2 holds 0, none is NULL.
C14_EndToEnd ==
    (src = <<Scenario>> /\ in_runs = 1) =>
        /\ (in_pc = "loop" /\ in_next = 1) =>
              /\ a_rows = ScenarioRows(NULL, NULL)
              /\ in_batches = <<<<1, 2>>>>
        /\ (in_pc \in {"loop", "done"} /\ in_next = 2 /\ in_reply = ScenarioReply) =>
              a_rows = ScenarioRows(1, 0)

C14_Witness ==
    /\ src = <<Scenario>>
    /\ in_runs = 1
    /\ in_pc = "done"
    /\ in_reply = ScenarioReply
    /\ a_rows = ScenarioRows(1, 0)

RECURSIVE RunInOrder(_, _)
\* the committed column after the batches are reconciled in the given
\* order, up to the first one that raises
RunInOrder(table, order) ==
    IF order = <<>> THEN table
    ELSE LET b == Head(order)
             r == ReconcileBatch(table, o_batches[b], o_reply[b].api, o_reply[b].results)
         IN  IF r.raised THEN table ELSE RunInOrder(r.table, Tail(order))

Perms(s) ==
    {[i \in 1..Len(s) |-> s[q[i]]] :
        q \in {q \in [1..Len(s) -> 1..Len(s)] :
                  \A i, j \in 1..Len(s) : q[i] = q[j] => i = j}}

\* C17: reconciling a batch gives the same labels for every permutation of
\* its results list; and when the run is over, in whatever order the
\* batches completed, the labels are those of the run that reconciles the
\* batches in submission order.
C17_OrderIndependence ==
    /\ \A b \in DOMAIN o_batches :
          \A p \in Perms(o_reply[b].results) :
              ReconcileBatch(o_before, o_batches[b], o_reply[b].api, p)
                  = ReconcileBatch(o_before, o_batches[b], o_reply[b].api, o_reply[b].results)
    /\ o_pc \in {"done", "closed"} =>
          o_table = RunInOrder(o_before, [b \in 1..Len(o_batches) |-> b])

\* the first half of C17 alone
C17_PermutationPart ==
    \A b \in DOMAIN o_batches :
        \A p \in Perms(o_reply[b].results) :
            ReconcileBatch(o_before, o_batches[b], o_reply[b].api, p)
                = ReconcileBatch(o_before, o_batches[b], o_reply[b].api, o_reply[b].results)

TypeOK ==
    /\ number_type \in [RowIds -> Terminal \cup {NULL}]
    /\ txn \in [RowIds -> Terminal \cup {NULL}]
    /\ pc \in {"idle", "start", "as_completed", "for_item", "commit", "shutdown", "done", "closed"}
====
